---------------------------- MODULE Spec2Model ----------------------------
(***************************************************************************)
(* A model of the real-time audio pipeline of ai-interview-coach:          *)
(*   - StreamAudioPlayer   (src/utils/audioUtils.ts)   playback scheduler  *)
(*   - App callbacks       (src/App.tsx)               transcript          *)
(*                                                     aggregator, session *)
(*                                                     flags               *)
(*   - LiveSessionService  (src/services/geminiService.ts)                 *)
(*                                                     session lifecycle   *)
(* Time is counted in output sample periods (1/24000 s), so the duration   *)
(* of a decoded buffer is its frame count.  Text is a sequence of          *)
(* characters.                                                             *)
(*                                                                         *)
(* geminiService.ts declares LiveSessionService twice.  Spec and           *)
(* SpecCapture run the App with the first class (lines 37-213), the one    *)
(* with the isConnected flag and the onVolumeUpdate call; SpecSecond runs  *)
(* the App with the second class (lines 246-388).  In both the service is  *)
(* given the three callbacks handleStartSession passes.  The App may       *)
(* start a session again whenever none is active; the services of earlier  *)
(* sessions stay alive and their callbacks still reach the App.  An        *)
(* `await` is a point where other handlers may run, so a function with an  *)
(* await is one action per segment.                                        *)
(***************************************************************************)
EXTENDS Integers, Sequences, FiniteSets, TLC

(***************************************************************************)
(* Bounds of the model.                                                    *)
(***************************************************************************)
\* largest byte length of a downlink chunk handed to queueAudio
MaxBytes == 4
\* number of direct queueAudio calls explored by SpecPlayer
MaxBuffers == 3
\* number of direct stop() calls explored by SpecPlayer
MaxStops == 2
\* the audio clock is explored up to this reading
MaxTime == 2
\* number of transcript deltas explored by SpecTranscript
MaxDeltas == 4
\* number of downlink messages delivered, over all sessions, in Spec
MaxMessages == 1
\* largest byte length of the audio chunk of a downlink message in Spec
MaxMessageBytes == 2
\* the audio clock is explored up to this reading in Spec
MaxSessionTime == 1
\* number of capture callbacks explored by SpecCapture
MaxBlocks == 2
\* number of sessions the App starts
MaxSessions == 2
\* grid steps of a float sample per step of the 16-bit quantization
SubLsbSteps == 2
\* samples are explored up to this many grid steps outside [-1, 1]
MaxOverdrive == 2

(***************************************************************************)
(* Program constants.                                                      *)
(***************************************************************************)
\* bytes per 16-bit sample: new Int16Array(data.buffer)
BytesPerSample == 2
\* numChannels default of decodeAudioData
NumChannels == 1
\* this.nextStartTime = 0 in stop() and in the field initialiser
IdleBaseline == 0
\* 0x8000: the scale of negative samples, and the divisor 32768.0 of
\* decodeAudioData
Int16Scale == 32768
\* 0x7FFF: the scale of non-negative samples
Int16Max == 32767
\* values of a byte: Uint8Array
ByteRange == 256

VARIABLES
    \* ---- StreamAudioPlayer fields
    audioContext,     \* "null" | "running": the output AudioContext
    nextStartTime,    \* time cursor
    sources,          \* the Set<AudioBufferSourceNode>, as ids into `scheduled`
    isPlaying,
    \* ---- the Web Audio environment of the player
    currentTime,      \* ctx.currentTime, the audio clock
    inflight,         \* queueAudio calls suspended at `await decodeAudioData`
    scheduled,        \* every source created so far, in creation order
    \* ---- observations
    notifications,    \* the arguments onPlayStateChange was called with
    calls,            \* number of queueAudio calls made so far
    stopCalls,        \* number of stop() calls made so far
    stopSince,        \* a stop() ran since the last source was scheduled
    overlapped,       \* some queueAudio call began while another was in flight
    \* ---- App state (React)
    messages,          \* committed history: a sequence of [speaker, text]
    currentTranscript, \* <<>> for null, or <<[speaker, text]>>: the open utterance
    sessionState,      \* [isActive, isProcessing, isSpeaking]
    liveSessionRef,    \* 0 for null, or the number of the service it holds
    endPc,             \* where handleEndSession stands
    sessions,          \* number of services constructed so far
    \* ---- LiveSessionService fields, of each service
    isConnected,
    activeSession,     \* "null" | "session"
    inputAudioContext, \* "null" | "context"
    stream,            \* "null" | "stream"
    processor,         \* "null" | "processor"
    connectPc,         \* where connect() stands; "done": it returned and its
                       \* promise resolved ("rejected": its promise was
                       \* rejected, which the catch of connect() lets no
                       \* failure do)
    \* ---- the browser and the transport each service talks to
    transport,         \* "none" | "connecting" | "open" | "closing" | "failed" | "closed"
    micTracks,         \* "none" | "live" | "ended" | "stopped": the MediaStream's tracks
    inputCtx,          \* "none" | "open" | "closed": the input AudioContext
    procNode,          \* "none" | "connected" | "disconnected": the ScriptProcessorNode
    \* ---- observations
    deltaLog,          \* the (speaker, text) pairs onTranscriptUpdate was called with
    \* ---- observations, of each service
    onCloseCount,      \* number of calls of callbacks.onClose
    received,          \* number of downlink messages handled
    blocks,            \* number of capture callbacks run
    sent,              \* the blocks sendRealtimeInput took, in order
    sendErrors,        \* the blocks whose send threw
    volumeUpdates,     \* number of calls of callbacks.onVolumeUpdate that returned
    volumeErrors,      \* number of calls of callbacks.onVolumeUpdate that threw
    \* ---- one sample through the uplink encoder and the downlink decoder
    sample,            \* a float sample, in grid steps of 1 / SampleOne
    pcm,               \* <<>> or the two bytes float32ToPCM16 makes of it
    decoded            \* <<>> or <<the sample decodeAudioData makes of pcm>>

playerVars == <<audioContext, nextStartTime, sources, isPlaying, currentTime,
                inflight, scheduled, notifications, calls, stopCalls,
                stopSince, overlapped>>

transcriptVars == <<messages, currentTranscript, deltaLog>>

appVars == <<sessionState, liveSessionRef, endPc, sessions>>

serviceVars == <<isConnected, activeSession, inputAudioContext, stream,
                 processor, connectPc>>

envVars == <<transport, micTracks, inputCtx, procNode>>

codecVars == <<sample, pcm, decoded>>

uplinkVars == <<blocks, sent, sendErrors, volumeUpdates, volumeErrors,
               codecVars>>

vars == <<playerVars, transcriptVars, appVars, serviceVars, envVars,
          uplinkVars, onCloseCount, received>>

Last(q) == q[Len(q)]

(***************************************************************************)
(* Downlink decoder: decode() and decodeAudioData().                       *)
(***************************************************************************)
\* decode(base64): atob yields one byte per character of the binary string;
\* a chunk is represented by its byte length.
ByteLens == 1..MaxBytes

\* Mutant of Int16ViewOk: a view is made of any byte length.
Int16ViewOk_any(byteLen) == TRUE

\* new Int16Array(data.buffer) throws a RangeError unless the byte length is
\* a multiple of 2.
Int16ViewOk(byteLen) == byteLen % BytesPerSample = 0

\* dataInt16.length / numChannels
FrameCount(byteLen) == (byteLen \div BytesPerSample) \div NumChannels

\* decodeAudioData: the settled value of the promise queueAudio awaits.
\* duration = frameCount / sampleRate, i.e. frameCount sample periods.
decodeAudioData(byteLen) ==
    IF Int16ViewOk(byteLen)
    THEN [ok |-> TRUE, duration |-> FrameCount(byteLen)]
    ELSE [ok |-> FALSE, duration |-> 0]

(***************************************************************************)
(* Sample codec: float32ToPCM16 on the uplink, the sample loop of          *)
(* decodeAudioData on the downlink.  A float sample x is the integer       *)
(* x * SampleOne; float32 holds every such value exactly.                  *)
(***************************************************************************)
\* the sample value 1.0 in grid steps
SampleOne == SubLsbSteps * Int16Scale

Samples == (0 - SampleOne - MaxOverdrive)..(SampleOne + MaxOverdrive)

Abs(n) == IF n < 0 THEN 0 - n ELSE n

\* Math.max(-1, Math.min(1, float32Array[i]))
Clamp(x) ==
    IF x > SampleOne THEN SampleOne
    ELSE IF x < 0 - SampleOne THEN 0 - SampleOne
    ELSE x

\* The integer part of x * scale for a sample x >= 0 (x * scale is
\* (x * scale) / SampleOne in grid steps), computed without leaving 32 bits.
ScaleTrunc(x, scale) ==
    (x \div SampleOne) * scale + ((x % SampleOne) * scale) \div SampleOne

\* int16Array[i] = s < 0 ? s * 0x8000 : s * 0x7FFF: the store into an
\* Int16Array drops the fraction (towards zero).
Quantize(s) ==
    IF s < 0
    THEN 0 - ScaleTrunc(0 - s, Int16Scale)
    ELSE ScaleTrunc(s, Int16Max)

\* new Uint8Array(int16Array.buffer): the two bytes of a 16-bit value, low
\* byte first, negative values in two's complement.
Int16Bytes(q) ==
    LET u == IF q < 0 THEN q + ByteRange * ByteRange ELSE q
    IN  <<u % ByteRange, u \div ByteRange>>

\* float32ToPCM16 for one sample; btoa and atob carry the bytes unchanged.
float32ToPCM16(x) == Int16Bytes(Quantize(Clamp(x)))

\* new Int16Array(data.buffer): the 16-bit value of two bytes
Int16At(bytes) ==
    LET u == bytes[1] + ByteRange * bytes[2]
    IN  IF u >= Int16Scale THEN u - ByteRange * ByteRange ELSE u

\* channelData[i] = dataInt16[...] / 32768.0, in grid steps
DecodedSample(bytes) == Int16At(bytes) * SubLsbSteps

(***************************************************************************)
(* StreamAudioPlayer.                                                      *)
(***************************************************************************)
\* initContext(): creates the context on first use and returns it.
initContext(ctx) == IF ctx = "null" THEN "running" ELSE ctx

\* Mutants of ScheduledStart.
ScheduledStart_alwaysNow(cursor, now) == now
ScheduledStart_neverReset(cursor, now) == cursor
ScheduledStart_flipped(cursor, now) == IF cursor > now THEN now ELSE cursor

\* if (this.nextStartTime < currentTime) this.nextStartTime = currentTime;
ScheduledStart(cursor, now) == IF cursor < now THEN now ELSE cursor

\* Mutant of AdvanceCursor: the cursor is left where the buffer started.
AdvanceCursor_noAdvance(start, duration) == start

\* this.nextStartTime += audioBuffer.duration
AdvanceCursor(start, duration) == start + duration

\* Mutant of NextToResume: the most recent call resumes first.
NextToResume_lifo(q) == Len(q)

\* Continuations of `await` on already-settled promises run in the order
\* the awaits were reached (microtask queue): the oldest call resumes first.
NextToResume(q) == 1

RemoveAt(q, i) == [k \in 1..(Len(q) - 1) |-> IF k < i THEN q[k] ELSE q[k + 1]]

\* Mutant of StopCursor: stop() leaves the cursor alone.
StopCursor_keep(cursor) == cursor

\* this.nextStartTime = 0 in stop()
StopCursor(cursor) == IdleBaseline

\* Mutant of EndedIsPlaying: completion never clears the flag.
EndedIsPlaying_keep(remaining, playing) == playing

\* if (this.sources.size === 0) this.isPlaying = false
EndedIsPlaying(remaining, playing) == IF remaining = {} THEN FALSE ELSE playing

\* Mutant of EndedNotify: completion of the last source is not reported.
EndedNotify_silent(remaining) == <<>>

\* the calls of onPlayStateChange made by a source's onended handler
EndedNotify(remaining) == IF remaining = {} THEN <<FALSE>> ELSE <<>>

\* if (!this.isPlaying) { this.isPlaying = true; this.onPlayStateChange?.(true) }
StartNotify(playing) == IF playing THEN <<>> ELSE <<TRUE>>

\* this.onPlayStateChange?.(false) at the end of stop()
StopNotify == <<FALSE>>

\* queueAudio up to its await: initContext, decode, decodeAudioData.
QueueAudioCall(byteLen) ==
    /\ audioContext' = initContext(audioContext)
    /\ calls' = calls + 1
    /\ inflight' = Append(inflight,
                          [call   |-> calls + 1,
                           buffer |-> decodeAudioData(byteLen),
                           stops  |-> stopCalls])
    /\ overlapped' = (overlapped \/ inflight # <<>>)
    /\ UNCHANGED <<nextStartTime, sources, isPlaying, currentTime, scheduled,
                   notifications, stopCalls, stopSince>>

\* queueAudio after its await.  A rejected decode throws out of queueAudio
\* before any field is touched.
QueueAudioResume ==
    /\ inflight # <<>>
    /\ LET i     == NextToResume(inflight)
           c     == inflight[i]
           start == ScheduledStart(nextStartTime, currentTime)
           id    == Len(scheduled) + 1
       IN  /\ inflight' = RemoveAt(inflight, i)
           /\ IF c.buffer.ok
              THEN /\ scheduled' = Append(scheduled,
                          [call      |-> c.call,
                           start     |-> start,
                           duration  |-> c.buffer.duration,
                           now       |-> currentTime,
                           cursor    |-> nextStartTime,
                           afterStop |-> stopSince,
                           next      |-> AdvanceCursor(start, c.buffer.duration),
                           state     |-> "scheduled"])
                   /\ sources' = sources \cup {id}
                   /\ nextStartTime' = AdvanceCursor(start, c.buffer.duration)
                   /\ isPlaying' = TRUE
                   /\ notifications' = notifications \o StartNotify(isPlaying)
                   /\ stopSince' = FALSE
              ELSE UNCHANGED <<scheduled, sources, nextStartTime, isPlaying,
                             notifications, stopSince>>
    /\ UNCHANGED <<audioContext, currentTime, calls, stopCalls, overlapped>>

\* A source's ended event is due once it has played to its end or has been
\* stopped; it is delivered once.
EndedDue(id) ==
    \/ scheduled[id].state = "stopped"
    \/ /\ scheduled[id].state = "scheduled"
       /\ currentTime >= scheduled[id].start + scheduled[id].duration

\* source.onended
OnEnded(id) ==
    /\ id \in 1..Len(scheduled)
    /\ EndedDue(id)
    /\ scheduled' = [scheduled EXCEPT ![id].state = "ended"]
    /\ sources' = sources \ {id}
    /\ isPlaying' = EndedIsPlaying(sources \ {id}, isPlaying)
    /\ notifications' = notifications \o EndedNotify(sources \ {id})
    /\ UNCHANGED <<audioContext, nextStartTime, currentTime, inflight, calls,
                   stopCalls, stopSince, overlapped>>

\* stop(): the changes it makes to the player.
PlayerStop ==
    /\ scheduled' = [id \in 1..Len(scheduled) |->
                        IF id \in sources
                        THEN [scheduled[id] EXCEPT !.state = "stopped"]
                        ELSE scheduled[id]]
    /\ sources' = {}
    /\ nextStartTime' = StopCursor(nextStartTime)
    /\ isPlaying' = FALSE
    /\ notifications' = notifications \o StopNotify
    /\ stopCalls' = stopCalls + 1
    /\ stopSince' = TRUE
    /\ UNCHANGED <<audioContext, currentTime, inflight, calls, overlapped>>

\* The audio clock advances by itself.
Tick ==
    /\ currentTime < MaxTime
    /\ currentTime' = currentTime + 1
    /\ UNCHANGED <<audioContext, nextStartTime, sources, isPlaying, inflight,
                   scheduled, notifications, calls, stopCalls, stopSince,
                   overlapped>>

InitPlayer ==
    /\ audioContext = "null"
    /\ nextStartTime = IdleBaseline
    /\ sources = {}
    /\ isPlaying = FALSE
    /\ currentTime = 0
    /\ inflight = <<>>
    /\ scheduled = <<>>
    /\ notifications = <<>>
    /\ calls = 0
    /\ stopCalls = 0
    /\ stopSince = FALSE
    /\ overlapped = FALSE

(***************************************************************************)
(* Transcript aggregator: onTranscriptUpdate and addMessageToHistory of    *)
(* App.                                                                    *)
(***************************************************************************)
Speakers == {"User", "Coach"}

Whitespace == {" "}

Chars == {"a", "b", "c", " "}

\* handleMessage passes a transcription text on only when it is non-empty.
Fragments == {<<ch>> : ch \in Chars}

RECURSIVE TrimStart(_)
TrimStart(t) ==
    IF t # <<>> /\ Head(t) \in Whitespace THEN TrimStart(Tail(t)) ELSE t

RECURSIVE TrimEnd(_)
TrimEnd(t) ==
    IF t # <<>> /\ t[Len(t)] \in Whitespace
    THEN TrimEnd(SubSeq(t, 1, Len(t) - 1))
    ELSE t

\* String.prototype.trim
trim(t) == TrimEnd(TrimStart(t))

\* Mutant of addMessageToHistory: blank text is committed too.
addMessageToHistory_noCheck(history, speaker, text) ==
    Append(history, [speaker |-> speaker, text |-> text])

\* Mutant of addMessageToHistory: the utterance is put in front.
addMessageToHistory_prepend(history, speaker, text) ==
    IF trim(text) = <<>>
    THEN history
    ELSE <<[speaker |-> speaker, text |-> text]>> \o history

\* if (!text.trim()) return; setMessages(prev => [...prev, {speaker, text}])
addMessageToHistory(history, speaker, text) ==
    IF trim(text) = <<>>
    THEN history
    ELSE Append(history, [speaker |-> speaker, text |-> text])

\* Mutant of Accumulate: a delta replaces the open text.
Accumulate_replace(prev, text) == text

\* prev ? prev.text + text : text
Accumulate(prev, text) == IF prev = <<>> THEN text ELSE prev[1].text \o text

\* prev && prev.speaker !== speaker
SpeakerChanged(prev, speaker) == prev # <<>> /\ prev[1].speaker # speaker

\* onTranscriptUpdate(speaker, text, isFinal): the updater given to
\* setCurrentTranscript, with the setMessages it queues, applied to the
\* aggregator state t = [messages, currentTranscript, deltaLog].
onTranscriptUpdate(t, speaker, text) ==
    [messages |->
        IF SpeakerChanged(t.currentTranscript, speaker)
        THEN addMessageToHistory(t.messages,
                                 t.currentTranscript[1].speaker,
                                 t.currentTranscript[1].text)
        ELSE t.messages,
     currentTranscript |->
        IF SpeakerChanged(t.currentTranscript, speaker)
        THEN <<[speaker |-> speaker, text |-> text]>>
        ELSE <<[speaker |-> speaker,
                text |-> Accumulate(t.currentTranscript, text)]>>,
     deltaLog |-> Append(t.deltaLog, [speaker |-> speaker, text |-> text])]

Aggregator ==
    [messages |-> messages, currentTranscript |-> currentTranscript,
     deltaLog |-> deltaLog]

SetAggregator(t) ==
    /\ messages' = t.messages
    /\ currentTranscript' = t.currentTranscript
    /\ deltaLog' = t.deltaLog

InitTranscript ==
    /\ messages = <<>>
    /\ currentTranscript = <<>>
    /\ deltaLog = <<>>

(***************************************************************************)
(* App: session flags and the observer given to the player.                *)
(***************************************************************************)
Inactive == [isActive |-> FALSE, isProcessing |-> FALSE, isSpeaking |-> FALSE]

Active == [isActive |-> TRUE, isProcessing |-> FALSE, isSpeaking |-> FALSE]

\* new StreamAudioPlayer(isPlaying => setSessionState(prev =>
\*     ({...prev, isSpeaking: isPlaying})))
Observed ==
    sessionState' = IF notifications' = notifications
                    THEN sessionState
                    ELSE [sessionState EXCEPT !.isSpeaking = Last(notifications')]

\* Mutant of AppOnClose: the player is not stopped.
AppOnClose_noStop ==
    /\ UNCHANGED playerVars
    /\ sessionState' = Inactive

\* callbacks.onClose of handleStartSession: setSessionState, then stop()
AppOnClose ==
    /\ PlayerStop
    /\ sessionState' = Inactive

(***************************************************************************)
(* LiveSessionService, first class (geminiService.ts lines 37-213).        *)
(* Every handleStartSession constructs a new service; the services         *)
(* constructed so far are numbered 1..sessions, and the callbacks of an    *)
(* earlier service keep arriving after a later one was started.            *)
(***************************************************************************)
Sessions == 1..MaxSessions

\* the sum of the counters of all services
RECURSIVE SumTo(_, _)
SumTo(f, n) == IF n = 0 THEN 0 ELSE f[n] + SumTo(f, n - 1)

Total(f) == SumTo(f, MaxSessions)

\* The callbacks object handleStartSession gives to the constructor.
AppCallbacks == {"onAudioData", "onTranscriptUpdate", "onClose"}

\* Mutant of CloseTransport: close() leaves the transport as it is.
CloseTransport_noop(tr) == tr

\* activeSession.close(): an open transport starts closing and will report
\* the close through onclose; a transport that is closing, failed or
\* closed is left as it is.
CloseTransport(tr) == IF tr \in {"connecting", "open"} THEN "closing" ELSE tr

\* Mutant of cleanup: the stream is dropped without stopping its tracks.
cleanup_leaveTracks(s) ==
    /\ stream' = [stream EXCEPT ![s] = "null"]
    /\ micTracks' = micTracks
    /\ processor' = [processor EXCEPT ![s] = "null"]
    /\ procNode' = [procNode EXCEPT ![s] =
                       IF processor[s] # "null" THEN "disconnected" ELSE @]
    /\ inputAudioContext' = [inputAudioContext EXCEPT ![s] = "null"]
    /\ inputCtx' = [inputCtx EXCEPT ![s] =
                       IF inputAudioContext[s] # "null" THEN "closed" ELSE @]

\* cleanup() of service s
cleanup(s) ==
    /\ stream' = [stream EXCEPT ![s] = "null"]
    /\ micTracks' = [micTracks EXCEPT ![s] =
                        IF stream[s] # "null" THEN "stopped" ELSE @]
    /\ processor' = [processor EXCEPT ![s] = "null"]
    /\ procNode' = [procNode EXCEPT ![s] =
                       IF processor[s] # "null" THEN "disconnected" ELSE @]
    /\ inputAudioContext' = [inputAudioContext EXCEPT ![s] = "null"]
    /\ inputCtx' = [inputCtx EXCEPT ![s] =
                       IF inputAudioContext[s] # "null" THEN "closed" ELSE @]

\* disconnect() of service s, called with its transport in state tr; it
\* has no await and runs to its end, callbacks.onClose() included.
disconnect(s, tr) ==
    /\ isConnected' = [isConnected EXCEPT ![s] = FALSE]
    /\ transport' = [transport EXCEPT ![s] =
                        IF activeSession[s] # "null"
                        THEN CloseTransport(tr) ELSE tr]
    /\ activeSession' = [activeSession EXCEPT ![s] = "null"]
    /\ cleanup(s)
    /\ onCloseCount' = [onCloseCount EXCEPT ![s] = @ + 1]
    /\ AppOnClose

\* The App half of handleStartSession: the transcript is reset, the
\* session is marked active and a new service takes the place of the one
\* in liveSessionRef.  The Start button is shown while the session is not
\* active; a click is handled only after the microtasks of the handler
\* before it, the rest of handleEndSession among them.
NewSession ==
    /\ ~sessionState.isActive
    /\ endPc # "awaitDisconnect"
    /\ messages' = <<>>
    /\ currentTranscript' = <<>>
    /\ deltaLog' = <<>>
    /\ sessionState' = Active
    /\ sessions' = sessions + 1
    /\ liveSessionRef' = sessions + 1
    /\ endPc' = "idle"

\* handleStartSession up to the first await of connect(): connect() sets
\* isConnected, creates the input AudioContext and asks for the microphone.
StartSession ==
    /\ NewSession
    /\ isConnected' = [isConnected EXCEPT ![sessions + 1] = TRUE]
    /\ inputAudioContext' = [inputAudioContext EXCEPT ![sessions + 1] = "context"]
    /\ inputCtx' = [inputCtx EXCEPT ![sessions + 1] = "open"]
    /\ connectPc' = [connectPc EXCEPT ![sessions + 1] = "awaitMic"]
    /\ UNCHANGED <<playerVars, activeSession, stream, processor, transport,
                   micTracks, procNode, uplinkVars, onCloseCount, received>>

\* getUserMedia resolves: this.stream is set and ai.live.connect is called.
MicGranted(s) ==
    /\ connectPc[s] = "awaitMic"
    /\ stream' = [stream EXCEPT ![s] = "stream"]
    /\ micTracks' = [micTracks EXCEPT ![s] = "live"]
    /\ transport' = [transport EXCEPT ![s] = "connecting"]
    /\ connectPc' = [connectPc EXCEPT ![s] = "awaitSession"]
    /\ UNCHANGED <<playerVars, transcriptVars, appVars, isConnected,
                   activeSession, inputAudioContext, processor, inputCtx,
                   procNode, uplinkVars, onCloseCount, received>>

\* getUserMedia rejects: the catch block of connect() calls disconnect().
MicDenied(s) ==
    /\ connectPc[s] = "awaitMic"
    /\ disconnect(s, transport[s])
    /\ connectPc' = [connectPc EXCEPT ![s] = "done"]
    /\ UNCHANGED <<transcriptVars, sessions, liveSessionRef, endPc,
                   uplinkVars, received>>

\* the tail of startAudioPipeline: the processor is created, given its
\* onaudioprocess handler and connected.
InstallProcessor(s) ==
    /\ processor' = [processor EXCEPT ![s] = "processor"]
    /\ procNode' = [procNode EXCEPT ![s] = "connected"]

\* ai.live.connect resolves: activeSession is set; then startAudioPipeline
\* if still connected, else activeSession.close().
SessionOpened(s, suspended) ==
    /\ connectPc[s] = "awaitSession"
    /\ transport[s] = "connecting"
    /\ activeSession' = [activeSession EXCEPT ![s] = "session"]
    /\ IF isConnected[s]
       THEN /\ transport' = [transport EXCEPT ![s] = "open"]
            /\ IF inputAudioContext[s] = "null" \/ stream[s] = "null"
               THEN /\ connectPc' = [connectPc EXCEPT ![s] = "done"]
                    /\ UNCHANGED <<processor, procNode>>
               ELSE IF suspended
               THEN /\ connectPc' = [connectPc EXCEPT ![s] = "awaitResume"]
                    /\ UNCHANGED <<processor, procNode>>
               ELSE /\ connectPc' = [connectPc EXCEPT ![s] = "done"]
                    /\ InstallProcessor(s)
       ELSE /\ transport' = [transport EXCEPT ![s] = CloseTransport("open")]
            /\ connectPc' = [connectPc EXCEPT ![s] = "done"]
            /\ UNCHANGED <<processor, procNode>>
    /\ UNCHANGED <<playerVars, transcriptVars, appVars, isConnected,
                   inputAudioContext, stream, micTracks, inputCtx, uplinkVars,
                   onCloseCount, received>>

\* ai.live.connect rejects: the catch block of connect() calls disconnect().
SessionRejected(s) ==
    /\ connectPc[s] = "awaitSession"
    /\ transport[s] = "connecting"
    /\ disconnect(s, "closed")
    /\ connectPc' = [connectPc EXCEPT ![s] = "done"]
    /\ UNCHANGED <<transcriptVars, sessions, liveSessionRef, endPc,
                   uplinkVars, received>>

\* startAudioPipeline after `await this.inputAudioContext.resume()`.  With
\* inputAudioContext set to null meanwhile, createMediaStreamSource is
\* called on null; the TypeError reaches the catch block of connect().
PipelineResume(s) ==
    /\ connectPc[s] = "awaitResume"
    /\ connectPc' = [connectPc EXCEPT ![s] = "done"]
    /\ IF inputAudioContext[s] = "null"
       THEN disconnect(s, transport[s])
       ELSE /\ InstallProcessor(s)
            /\ UNCHANGED <<playerVars, sessionState, isConnected, activeSession,
                           inputAudioContext, stream, transport, micTracks,
                           inputCtx, onCloseCount>>
    /\ UNCHANGED <<transcriptVars, sessions, liveSessionRef, endPc,
                   uplinkVars, received>>

\* The transport reports an error: callbacks.onerror calls disconnect().
\* The close report follows.
TransportError(s) ==
    /\ transport[s] \in {"connecting", "open", "closing"}
    /\ disconnect(s, "failed")
    /\ UNCHANGED <<transcriptVars, sessions, liveSessionRef, endPc, connectPc,
                   uplinkVars, received>>

\* The transport reports that it closed (closed by the remote side, after
\* an error, or after close() was called): callbacks.onclose calls
\* disconnect().
TransportClose(s) ==
    /\ transport[s] \in {"open", "closing", "failed"}
    /\ disconnect(s, "closed")
    /\ UNCHANGED <<transcriptVars, sessions, liveSessionRef, endPc, connectPc,
                   uplinkVars, received>>

\* handleEndSession up to its await: liveSessionRef.current.disconnect().
\* The End button is shown while sessionState.isActive.
EndSession ==
    /\ sessionState.isActive
    /\ liveSessionRef # 0
    /\ endPc # "awaitDisconnect"
    /\ disconnect(liveSessionRef, transport[liveSessionRef])
    /\ endPc' = "awaitDisconnect"
    /\ UNCHANGED <<transcriptVars, sessions, liveSessionRef, connectPc,
                   uplinkVars, received>>

\* handleEndSession after its await.
EndSessionResume ==
    /\ endPc = "awaitDisconnect"
    /\ endPc' = "done"
    /\ liveSessionRef' = 0
    /\ PlayerStop
    /\ sessionState' = Inactive
    /\ currentTranscript' = <<>>
    /\ UNCHANGED <<messages, deltaLog, sessions, serviceVars, envVars,
                   uplinkVars, onCloseCount, received>>

\* What one downlink message may carry: an audio chunk (byte length, 0 for
\* none), an output transcription and an input transcription (<<>> for
\* none).
MessageAudio == 0..MaxMessageBytes

MessageTexts == {<<>>, <<"a">>, <<" ">>}

\* the transcript half of handleMessage: the coach's text, then the user's
MessageTranscript(t, coachText, userText) ==
    LET t1 == IF coachText # <<>>
              THEN onTranscriptUpdate(t, "Coach", coachText) ELSE t
    IN  IF userText # <<>> THEN onTranscriptUpdate(t1, "User", userText) ELSE t1

\* handleMessage(message), with the App's onAudioData and onTranscriptUpdate
handleMessage(audio, coachText, userText) ==
    /\ IF audio # 0
       THEN QueueAudioCall(audio)
       ELSE UNCHANGED playerVars
    /\ SetAggregator(MessageTranscript(Aggregator, coachText, userText))

\* The transport of service s delivers a downlink message: onmessage.
Message(s) ==
    /\ transport[s] \in {"open", "closing"}
    /\ Total(received) < MaxMessages
    /\ received' = [received EXCEPT ![s] = @ + 1]
    /\ \E audio \in MessageAudio, coachText \in MessageTexts,
          userText \in MessageTexts :
          handleMessage(audio, coachText, userText)
    /\ UNCHANGED <<appVars, serviceVars, envVars, uplinkVars, onCloseCount>>

\* Mutant of CaptureLive: the callback does not look at the flags.
CaptureLive_unguarded(connected, session) == TRUE

\* if (!this.isConnected || !this.activeSession) return;
CaptureLive(connected, session) == connected /\ session # "null"

\* this.callbacks.onVolumeUpdate(rms): the call returns when the callbacks
\* object has the function, and throws a TypeError when it has not; the
\* TypeError leaves onaudioprocess, which is over for this block.
VolumeReported(callbacks) == "onVolumeUpdate" \in callbacks

\* try { this.activeSession.sendRealtimeInput(...) } catch (err) { ... }:
\* the frames the transport has been handed, after the call for `block`.
Transmit(frames, block, sendFails) ==
    IF sendFails THEN frames ELSE Append(frames, block)

\* console.error("Error sending audio frame:", err) in the catch
LogSendError(errors, block, sendFails) ==
    IF sendFails THEN Append(errors, block) ELSE errors

\* processor.onaudioprocess of service s for one captured block;
\* sendFails: whether sendRealtimeInput throws.  The App gives the service
\* no onVolumeUpdate, so a block that passes the guard ends at the volume
\* update, before it is encoded or sent.
onaudioprocess(s, sendFails) ==
    /\ blocks' = [blocks EXCEPT ![s] = @ + 1]
    /\ IF CaptureLive(isConnected[s], activeSession[s])
       THEN IF VolumeReported(AppCallbacks)
            THEN /\ volumeUpdates' = [volumeUpdates EXCEPT ![s] = @ + 1]
                 /\ sent' = [sent EXCEPT ![s] =
                                Transmit(@, blocks[s] + 1, sendFails)]
                 /\ sendErrors' = [sendErrors EXCEPT ![s] =
                                      LogSendError(@, blocks[s] + 1, sendFails)]
                 /\ UNCHANGED volumeErrors
            ELSE /\ volumeErrors' = [volumeErrors EXCEPT ![s] = @ + 1]
                 /\ UNCHANGED <<sent, sendErrors, volumeUpdates>>
       ELSE UNCHANGED <<sent, sendErrors, volumeUpdates, volumeErrors>>

\* The processor of service s delivers a block.  A block that was captured
\* before the processor was disconnected may be delivered after.
AudioProcess(s) ==
    /\ procNode[s] # "none"
    /\ Total(blocks) < MaxBlocks
    /\ \E sendFails \in BOOLEAN : onaudioprocess(s, sendFails)
    /\ UNCHANGED <<playerVars, transcriptVars, appVars, serviceVars, envVars,
                   onCloseCount, received, codecVars>>

\* The microphone goes away while its track is live: the track ends.  The
\* service registers no listener on the track or the stream, so no handler
\* runs; the processor keeps delivering blocks, now of silence.
TrackEnded(s) ==
    /\ micTracks[s] = "live"
    /\ micTracks' = [micTracks EXCEPT ![s] = "ended"]
    /\ UNCHANGED <<playerVars, transcriptVars, appVars, serviceVars, transport,
                   inputCtx, procNode, uplinkVars, onCloseCount, received>>

(***************************************************************************)
(* LiveSessionService, second class (geminiService.ts lines 246-388): the  *)
(* file declares the class twice.  The second class has no isConnected     *)
(* flag; its `session` field is held in activeSession.  It opens the       *)
(* transport first and asks for the microphone in onopen; disconnect() is  *)
(* cleanup() alone.                                                        *)
(***************************************************************************)
\* cleanup() of the second class: the session is forgotten, not closed.
cleanup2(s) ==
    /\ activeSession' = [activeSession EXCEPT ![s] = "null"]
    /\ stream' = [stream EXCEPT ![s] = "null"]
    /\ micTracks' = [micTracks EXCEPT ![s] =
                        IF stream[s] # "null" THEN "stopped" ELSE @]
    /\ processor' = [processor EXCEPT ![s] = "null"]
    /\ procNode' = [procNode EXCEPT ![s] =
                       IF processor[s] # "null" THEN "disconnected" ELSE @]
    /\ inputAudioContext' = [inputAudioContext EXCEPT ![s] = "null"]
    /\ inputCtx' = [inputCtx EXCEPT ![s] =
                       IF inputAudioContext[s] # "null" THEN "closed" ELSE @]

\* disconnect() of the second class
disconnect2(s) == cleanup2(s)

\* handleStartSession with the second class, up to the await of connect():
\* ai.live.connect is called.
StartSession2 ==
    /\ NewSession
    /\ transport' = [transport EXCEPT ![sessions + 1] = "connecting"]
    /\ connectPc' = [connectPc EXCEPT ![sessions + 1] = "awaitSession"]
    /\ UNCHANGED <<playerVars, isConnected, activeSession, inputAudioContext,
                   stream, processor, micTracks, inputCtx, procNode,
                   uplinkVars, onCloseCount, received>>

\* The transport opens: onopen runs startAudioStream up to its await (the
\* input AudioContext is created, the microphone is asked for), and
\* ai.live.connect resolves in the same turn: this.session is set.
SessionOpened2(s) ==
    /\ connectPc[s] = "awaitSession"
    /\ transport[s] = "connecting"
    /\ transport' = [transport EXCEPT ![s] = "open"]
    /\ activeSession' = [activeSession EXCEPT ![s] = "session"]
    /\ inputAudioContext' = [inputAudioContext EXCEPT ![s] = "context"]
    /\ inputCtx' = [inputCtx EXCEPT ![s] = "open"]
    /\ connectPc' = [connectPc EXCEPT ![s] = "awaitMic"]
    /\ UNCHANGED <<playerVars, transcriptVars, appVars, isConnected, stream,
                   processor, micTracks, procNode, uplinkVars, onCloseCount,
                   received>>

\* ai.live.connect rejects: the catch block of connect() calls onClose.
SessionRejected2(s) ==
    /\ connectPc[s] = "awaitSession"
    /\ transport[s] = "connecting"
    /\ transport' = [transport EXCEPT ![s] = "closed"]
    /\ connectPc' = [connectPc EXCEPT ![s] = "done"]
    /\ onCloseCount' = [onCloseCount EXCEPT ![s] = @ + 1]
    /\ AppOnClose
    /\ UNCHANGED <<transcriptVars, sessions, liveSessionRef, endPc,
                   isConnected, activeSession, inputAudioContext, stream,
                   processor, micTracks, inputCtx, procNode, uplinkVars,
                   received>>

\* getUserMedia resolves in startAudioStream: this.stream is set, then the
\* processor is created, given its handler and connected.  With
\* inputAudioContext set to null meanwhile, createMediaStreamSource is
\* called on null; the catch block of startAudioStream logs the TypeError.
MicGranted2(s) ==
    /\ connectPc[s] = "awaitMic"
    /\ connectPc' = [connectPc EXCEPT ![s] = "done"]
    /\ stream' = [stream EXCEPT ![s] = "stream"]
    /\ micTracks' = [micTracks EXCEPT ![s] = "live"]
    /\ IF inputAudioContext[s] = "null"
       THEN UNCHANGED <<processor, procNode>>
       ELSE InstallProcessor(s)
    /\ UNCHANGED <<playerVars, transcriptVars, appVars, isConnected,
                   activeSession, inputAudioContext, transport, inputCtx,
                   uplinkVars, onCloseCount, received>>

\* getUserMedia rejects: the catch block of startAudioStream logs it.
MicDenied2(s) ==
    /\ connectPc[s] = "awaitMic"
    /\ connectPc' = [connectPc EXCEPT ![s] = "done"]
    /\ UNCHANGED <<playerVars, transcriptVars, appVars, isConnected,
                   activeSession, inputAudioContext, stream, processor,
                   envVars, uplinkVars, onCloseCount, received>>

\* The transport reports an error: onerror runs cleanup() and onClose.
\* The close report follows.
TransportError2(s) ==
    /\ transport[s] \in {"connecting", "open"}
    /\ transport' = [transport EXCEPT ![s] = "failed"]
    /\ cleanup2(s)
    /\ onCloseCount' = [onCloseCount EXCEPT ![s] = @ + 1]
    /\ AppOnClose
    /\ UNCHANGED <<transcriptVars, sessions, liveSessionRef, endPc,
                   isConnected, connectPc, uplinkVars, received>>

\* The transport reports that it closed: onclose runs cleanup() and
\* onClose.
TransportClose2(s) ==
    /\ transport[s] \in {"open", "failed"}
    /\ transport' = [transport EXCEPT ![s] = "closed"]
    /\ cleanup2(s)
    /\ onCloseCount' = [onCloseCount EXCEPT ![s] = @ + 1]
    /\ AppOnClose
    /\ UNCHANGED <<transcriptVars, sessions, liveSessionRef, endPc,
                   isConnected, connectPc, uplinkVars, received>>

\* handleEndSession with the second class, up to its await.
EndSession2 ==
    /\ sessionState.isActive
    /\ liveSessionRef # 0
    /\ endPc # "awaitDisconnect"
    /\ disconnect2(liveSessionRef)
    /\ endPc' = "awaitDisconnect"
    /\ UNCHANGED <<playerVars, transcriptVars, sessionState, sessions,
                   liveSessionRef, isConnected, connectPc, transport,
                   uplinkVars, onCloseCount, received>>

\* processor.onaudioprocess of the second class for one captured block:
\* the block is encoded and, with a session, sent; an exception of
\* sendRealtimeInput leaves the handler.
onaudioprocess2(s, sendFails) ==
    /\ blocks' = [blocks EXCEPT ![s] = @ + 1]
    /\ IF activeSession[s] # "null"
       THEN IF sendFails
            THEN /\ sendErrors' = [sendErrors EXCEPT ![s] =
                                      Append(@, blocks[s] + 1)]
                 /\ UNCHANGED sent
            ELSE /\ sent' = [sent EXCEPT ![s] = Append(@, blocks[s] + 1)]
                 /\ UNCHANGED sendErrors
       ELSE UNCHANGED <<sent, sendErrors>>
    /\ UNCHANGED <<volumeUpdates, volumeErrors>>

\* The processor of service s delivers a block.
AudioProcess2(s) ==
    /\ procNode[s] # "none"
    /\ Total(blocks) < MaxBlocks
    /\ \E sendFails \in BOOLEAN : onaudioprocess2(s, sendFails)
    /\ UNCHANGED <<playerVars, transcriptVars, appVars, serviceVars, envVars,
                   onCloseCount, received, codecVars>>

\* Everything but the codec.
nonCodecVars == <<playerVars, transcriptVars, appVars, serviceVars, envVars,
                  blocks, sent, sendErrors, volumeUpdates, volumeErrors,
                  onCloseCount, received>>

\* float32ToPCM16 is applied to the sample.
Encode ==
    /\ pcm = <<>>
    /\ pcm' = float32ToPCM16(sample)
    /\ UNCHANGED <<sample, decoded, nonCodecVars>>

\* The sample loop of decodeAudioData is applied to the bytes.
Decode ==
    /\ pcm # <<>>
    /\ decoded = <<>>
    /\ decoded' = <<DecodedSample(pcm)>>
    /\ UNCHANGED <<sample, pcm, nonCodecVars>>

\* No session was started yet: no service exists.
InitSession ==
    /\ sessionState = Inactive
    /\ liveSessionRef = 0
    /\ endPc = "idle"
    /\ sessions = 0
    /\ isConnected = [s \in Sessions |-> FALSE]
    /\ activeSession = [s \in Sessions |-> "null"]
    /\ inputAudioContext = [s \in Sessions |-> "null"]
    /\ stream = [s \in Sessions |-> "null"]
    /\ processor = [s \in Sessions |-> "null"]
    /\ connectPc = [s \in Sessions |-> "idle"]
    /\ transport = [s \in Sessions |-> "none"]
    /\ micTracks = [s \in Sessions |-> "none"]
    /\ inputCtx = [s \in Sessions |-> "none"]
    /\ procNode = [s \in Sessions |-> "none"]
    /\ onCloseCount = [s \in Sessions |-> 0]
    /\ received = [s \in Sessions |-> 0]
    /\ blocks = [s \in Sessions |-> 0]
    /\ sent = [s \in Sessions |-> <<>>]
    /\ sendErrors = [s \in Sessions |-> <<>>]
    /\ volumeUpdates = [s \in Sessions |-> 0]
    /\ volumeErrors = [s \in Sessions |-> 0]

\* No sample is in the codec.
InitCodec ==
    /\ sample = 0
    /\ pcm = <<>>
    /\ decoded = <<>>

Init == InitPlayer /\ InitTranscript /\ InitSession /\ InitCodec

sessionVars == <<appVars, serviceVars, envVars, uplinkVars, onCloseCount,
                 received>>

nonPlayerVars == <<transcriptVars, liveSessionRef, endPc, sessions, serviceVars,
                   envVars,
                   uplinkVars, onCloseCount, received>>

(***************************************************************************)
(* SpecPlayer: the player driven directly through its public interface,    *)
(* with the App's observer.                                                *)
(***************************************************************************)
QueueAudio ==
    /\ calls < MaxBuffers
    /\ \E n \in ByteLens : QueueAudioCall(n)
    /\ UNCHANGED <<sessionState, nonPlayerVars>>

Resume == QueueAudioResume /\ Observed /\ UNCHANGED nonPlayerVars

Ended ==
    /\ \E id \in 1..Len(scheduled) : OnEnded(id)
    /\ Observed
    /\ UNCHANGED nonPlayerVars

\* audioPlayerRef.current?.stop() of the unmount cleanup
Stop ==
    /\ stopCalls < MaxStops
    /\ PlayerStop
    /\ Observed
    /\ UNCHANGED nonPlayerVars

ClockTick == Tick /\ UNCHANGED <<sessionState, nonPlayerVars>>

NextPlayer == QueueAudio \/ Resume \/ Ended \/ Stop \/ ClockTick

SpecPlayer == Init /\ [][NextPlayer]_vars

(***************************************************************************)
(* SpecTranscript: the aggregator fed a sequence of deltas.                *)
(***************************************************************************)
Delta ==
    /\ Len(deltaLog) < MaxDeltas
    /\ \E sp \in Speakers, t \in Fragments :
          SetAggregator(onTranscriptUpdate(Aggregator, sp, t))
    /\ UNCHANGED <<playerVars, sessionVars>>

NextTranscript == Delta

SpecTranscript == Init /\ [][NextTranscript]_vars

(***************************************************************************)
(* Spec and SpecCapture: the App with the first service class, from the    *)
(* first Start on.                                                         *)
(***************************************************************************)
\* The user clicks Start.
Start == sessions < MaxSessions /\ StartSession

\* What the environment of service s and the continuations of its
\* connect() may do.
ServiceStep(s) ==
    \/ MicGranted(s)
    \/ MicDenied(s)
    \/ \E suspended \in BOOLEAN : SessionOpened(s, suspended)
    \/ SessionRejected(s)
    \/ PipelineResume(s)
    \/ TransportError(s)
    \/ TransportClose(s)

\* Every step that is still to come once the user clicks no more.
Pending == EndSessionResume \/ \E s \in Sessions : ServiceStep(s)

Lifecycle == Start \/ EndSession \/ Pending

SessionTick == currentTime < MaxSessionTime /\ ClockTick

Downlink == \E s \in Sessions : Message(s)

\* The sessions with their downlink: messages, playback and transcript.
Next == Lifecycle \/ Downlink \/ Resume \/ Ended \/ SessionTick

Spec == Init /\ [][Next]_vars

\* A downlink message that carries no transcript.
AudioDownlink == Downlink /\ deltaLog' = deltaLog

\* The sessions when the user clicks Start and never End: a session ends
\* with a failure of connect() or of its transport.  The audio clock
\* stands still.
NextFailure ==
    \/ Start
    \/ \E s \in Sessions : ServiceStep(s)
    \/ AudioDownlink
    \/ Resume

SpecFailure == Init /\ [][NextFailure]_vars

Capture == \E s \in Sessions : AudioProcess(s)

MicLost == \E s \in Sessions : TrackEnded(s)

\* The sessions with their uplink: the capture callback.
NextCapture == Lifecycle \/ Capture \/ MicLost

SpecCapture == Init /\ [][NextCapture]_vars

(***************************************************************************)
(* SpecSecond: the App with the second service class.                      *)
(***************************************************************************)
Start2 == sessions < MaxSessions /\ StartSession2

ServiceStep2(s) ==
    \/ SessionOpened2(s)
    \/ SessionRejected2(s)
    \/ MicGranted2(s)
    \/ MicDenied2(s)
    \/ TransportError2(s)
    \/ TransportClose2(s)

Lifecycle2 ==
    Start2 \/ EndSession2 \/ EndSessionResume
           \/ \E s \in Sessions : ServiceStep2(s)

Capture2 == \E s \in Sessions : AudioProcess2(s)

NextSecond == Lifecycle2 \/ Downlink \/ Resume \/ Capture2 \/ MicLost

SpecSecond == Init /\ [][NextSecond]_vars

(***************************************************************************)
(* SpecCodec: one sample, any value of the grid, encoded and decoded.      *)
(***************************************************************************)
InitSample ==
    /\ InitPlayer /\ InitTranscript /\ InitSession
    /\ sample \in Samples
    /\ pcm = <<>>
    /\ decoded = <<>>

NextCodec == Encode \/ Decode

SpecCodec == InitSample /\ [][NextCodec]_vars

(***************************************************************************)
(* Properties of the playback scheduler, checked under SpecPlayer.         *)
(***************************************************************************)
Pairs == 1..(Len(scheduled) - 1)

EndOf(e) == e.start + e.duration

\* C2: buffers queued with no stop() in between and with the audio clock
\* never past the previously scheduled end start exactly at the previous
\* buffer's computed end: start_{i+1} = start_i + d_i.
C2_GaplessStarts ==
    \A i \in Pairs :
        (/\ ~scheduled[i + 1].afterStop
         /\ scheduled[i + 1].now <= EndOf(scheduled[i]))
        => scheduled[i + 1].start = EndOf(scheduled[i])

\* Three buffers scheduled back to back while the clock was running.
C2_Witness ==
    /\ Len(scheduled) = 3
    /\ \A i \in Pairs :
          /\ ~scheduled[i + 1].afterStop
          /\ scheduled[i + 1].now <= EndOf(scheduled[i])
          /\ scheduled[i + 1].start = EndOf(scheduled[i])
    /\ scheduled[3].now > scheduled[1].now
    /\ scheduled[3].start > scheduled[2].start

\* C3: a buffer scheduled when nextStartTime is behind the audio clock
\* starts exactly at the clock's reading, and the cursor then stands at
\* that reading plus the buffer's duration (no backlog).
C3_GapResetsToNow ==
    /\ \A i \in 1..Len(scheduled) :
          scheduled[i].cursor < scheduled[i].now
          => scheduled[i].start = scheduled[i].now
    /\ \A i \in 1..Len(scheduled) :
          scheduled[i].cursor < scheduled[i].now
          => scheduled[i].next = scheduled[i].now + scheduled[i].duration

\* A buffer arrived after the previous one had already played out.
C3_Witness ==
    /\ Len(scheduled) >= 2
    /\ ~Last(scheduled).afterStop
    /\ Last(scheduled).cursor > 0
    /\ Last(scheduled).cursor < Last(scheduled).now
    /\ Last(scheduled).start = Last(scheduled).now

\* C4 as stated: nextStartTime never decreases, over queueAudio, playback
\* completion and stop() alike.
C4_CursorNeverDecreases == [][nextStartTime' >= nextStartTime]_vars

\* C4 as amended: nextStartTime never decreases in a step that is not a
\* stop(); a stop() sets it to the idle baseline.
C4_CursorMonotonicBetweenStops ==
    [][IF stopCalls' # stopCalls
       THEN nextStartTime' = IdleBaseline
       ELSE nextStartTime' >= nextStartTime]_vars

\* The cursor had advanced, stop() reset it, and it advanced again.
C4_Witness ==
    /\ Len(scheduled) >= 2
    /\ scheduled[1].duration > 0
    /\ Last(scheduled).afterStop
    /\ Last(scheduled).cursor = IdleBaseline
    /\ nextStartTime > IdleBaseline

\* C5: the start time given to a source is never before the audio clock's
\* reading at the moment it is scheduled.
C5_StartNotBeforeNow ==
    \A i \in 1..Len(scheduled) : scheduled[i].start >= scheduled[i].now

\* A buffer scheduled after a stop(), with the clock already advanced.
C5_Witness ==
    \E i \in 1..Len(scheduled) :
        /\ i > 1
        /\ scheduled[i].afterStop
        /\ scheduled[i].now > 0
        /\ scheduled[i].start = scheduled[i].now

\* C6 as stated: sources are scheduled in the order of their queueAudio
\* calls, and each starts no earlier than the end of the one scheduled
\* before it.
C6_FifoNoOverlap ==
    \A i \in Pairs :
        /\ scheduled[i].call < scheduled[i + 1].call
        /\ scheduled[i + 1].start >= EndOf(scheduled[i])

\* C6 as amended: sources are scheduled in the order of their queueAudio
\* calls, and each starts no earlier than the end of the one scheduled
\* before it unless a stop() ran between the two.
C6_FifoNoOverlapBetweenStops ==
    \A i \in Pairs :
        /\ scheduled[i].call < scheduled[i + 1].call
        /\ ~scheduled[i + 1].afterStop
           => scheduled[i + 1].start >= EndOf(scheduled[i])

\* Two calls were in flight together and were scheduled one after the other.
C6_Witness ==
    \E i \in Pairs :
        /\ overlapped
        /\ calls = 2
        /\ ~scheduled[i + 1].afterStop
        /\ scheduled[i].duration > 0
        /\ scheduled[i + 1].start >= EndOf(scheduled[i])

PlayerState == <<sources, nextStartTime, isPlaying>>

\* C7: every stop() ends in the idle state (each active source stopped,
\* empty active set, cursor at the idle baseline, isPlaying false), and a
\* stop() that follows a stop() ends in the same state.
C7_StopReachesIdle ==
    [][stopCalls' # stopCalls =>
          /\ sources' = {}
          /\ nextStartTime' = IdleBaseline
          /\ isPlaying' = FALSE
          /\ \A id \in sources : scheduled'[id].state = "stopped"
          /\ stopSince => PlayerState' = PlayerState]_vars

\* stop() on a playing scheduler, then stop() again.
C7_Witness ==
    /\ stopCalls = 2
    /\ calls = 1
    /\ Len(scheduled) = 1
    /\ scheduled[1].state = "stopped"
    /\ notifications = <<TRUE, FALSE, FALSE>>
    /\ PlayerState = <<{}, IdleBaseline, FALSE>>

\* C8: a stop() that follows a stop() changes no scheduler state and calls
\* the observer no further time.
C8_SecondStopIsNoOp ==
    [][(stopSince /\ stopCalls' # stopCalls) =>
          /\ PlayerState' = PlayerState
          /\ scheduled' = scheduled
          /\ notifications' = notifications]_vars

\* C9: isPlaying holds exactly when the active set is non-empty; the
\* observer is called with true when the set becomes non-empty and with
\* false when it becomes empty, and the last value it was given is the
\* value of isPlaying.
C9_PlayingIffActive ==
    /\ [](/\ isPlaying <=> sources # {}
          /\ notifications # <<>> => Last(notifications) = isPlaying)
    /\ [][/\ (sources = {} /\ sources' # {})
             => notifications' = Append(notifications, TRUE)
          /\ (sources # {} /\ sources' = {})
             => /\ Len(notifications') > Len(notifications)
                /\ Last(notifications') = FALSE]_vars

\* The ended event of a stopped source is delivered while a source that
\* was scheduled after the stop() is active.
C9_Witness ==
    /\ Len(scheduled) >= 2
    /\ scheduled[1].state = "ended"
    /\ currentTime < EndOf(scheduled[1])
    /\ scheduled[2].afterStop
    /\ 2 \in sources
    /\ isPlaying

\* The call that resumes next was in flight when a stop() ran.
StoppedInFlight ==
    /\ inflight # <<>>
    /\ inflight[NextToResume(inflight)].stops < stopCalls

\* C16: a queueAudio call that was in flight when stop() ran does not
\* change the scheduler's state when it resumes: the active set, the
\* cursor and isPlaying stay as stop() left them.
C16_StoppedCallDoesNotSchedule ==
    [][(StoppedInFlight /\ Len(inflight') < Len(inflight))
       => PlayerState' = PlayerState]_vars

\* C19: a chunk whose byte length is not a multiple of 2 * channels fails
\* to decode, and the failure stays with that chunk: when the call
\* resumes it changes nothing of the scheduler (active set, cursor,
\* isPlaying, sources, notifications), nothing of the session, and onClose
\* is not called; a call whose chunk decoded is scheduled whatever failed
\* before it.
C19_DecodeFailureIsLocal ==
    /\ [](\A n \in ByteLens :
             n % (BytesPerSample * NumChannels) # 0 => ~decodeAudioData(n).ok)
    /\ [][(inflight # <<>> /\ Len(inflight') < Len(inflight))
          => IF inflight[NextToResume(inflight)].buffer.ok
             THEN /\ Len(scheduled') = Len(scheduled) + 1
                  /\ Last(scheduled').call = inflight[NextToResume(inflight)].call
                  /\ Last(scheduled').state = "scheduled"
                  /\ sources' = sources \cup {Len(scheduled')}
                  /\ isPlaying'
             ELSE /\ PlayerState' = PlayerState
                  /\ scheduled' = scheduled
                  /\ notifications' = notifications
                  /\ onCloseCount' = onCloseCount
                  /\ UNCHANGED <<appVars, serviceVars, envVars>>]_vars

\* The first chunk failed to decode; the second, queued after it, was
\* scheduled and has played to its end.
C19_Witness ==
    /\ calls = 2
    /\ stopCalls = 0
    /\ inflight = <<>>
    /\ Len(scheduled) = 1
    /\ scheduled[1].call = 2
    /\ scheduled[1].state = "ended"
    /\ currentTime >= EndOf(scheduled[1])

\* Every queueAudio call made so far has resumed and every source
\* scheduled so far has completed.
Drained ==
    /\ inflight = <<>>
    /\ scheduled # <<>>
    /\ \A id \in 1..Len(scheduled) : scheduled[id].state = "ended"

\* C25: once the buffers queued have all been scheduled and every
\* scheduled source has completed, the active set is empty, isPlaying is
\* false, the last notification the observer was given is false, and the
\* App's speaking flag is false.
C25_DrainedIsIdle ==
    Drained =>
        /\ sources = {}
        /\ ~isPlaying
        /\ Last(notifications) = FALSE
        /\ ~sessionState.isSpeaking

\* Two buffers played to their ends one after the other, with no stop().
C25_Witness ==
    /\ Drained
    /\ stopCalls = 0
    /\ Len(scheduled) = 2
    /\ currentTime >= EndOf(scheduled[2])
    /\ notifications = <<TRUE, FALSE>>
    /\ ~isPlaying

(***************************************************************************)
(* Properties of the transcript aggregator, checked under SpecTranscript.  *)
(***************************************************************************)
\* The last delta of the maximal same-speaker run that starts at delta i.
RECURSIVE RunEnd(_, _)
RunEnd(log, i) ==
    IF i < Len(log) /\ log[i + 1].speaker = log[i].speaker
    THEN RunEnd(log, i + 1)
    ELSE i

\* The fragments of deltas i..j, concatenated in order.
RECURSIVE RunText(_, _, _)
RunText(log, i, j) ==
    IF i > j THEN <<>> ELSE log[i].text \o RunText(log, i + 1, j)

Blank(t) == \A k \in 1..Len(t) : t[k] \in Whitespace

\* The utterances of the runs from delta i on that another speaker's delta
\* ended, without those whose text is blank.
RECURSIVE ClosedRuns(_, _)
ClosedRuns(log, i) ==
    IF i > Len(log) THEN <<>>
    ELSE LET j == RunEnd(log, i)
             t == RunText(log, i, j)
         IN  IF j = Len(log) THEN <<>>
             ELSE (IF Blank(t) THEN <<>>
                   ELSE <<[speaker |-> log[i].speaker, text |-> t]>>)
                  \o ClosedRuns(log, j + 1)

\* The run that the last delta belongs to.
RECURSIVE OpenRun(_, _)
OpenRun(log, i) ==
    IF i > Len(log) THEN <<>>
    ELSE LET j == RunEnd(log, i)
         IN  IF j = Len(log)
             THEN <<[speaker |-> log[i].speaker, text |-> RunText(log, i, j)]>>
             ELSE OpenRun(log, j + 1)

\* C10: the committed history is, in order, one utterance per maximal run
\* of same-speaker deltas that a delta of the other speaker ended, its text
\* the concatenation of the run's fragments, blank ones left out; the last
\* run is the open utterance.
C10_HistoryIsClosedRuns ==
    /\ messages = ClosedRuns(deltaLog, 1)
    /\ currentTranscript = OpenRun(deltaLog, 1)

\* [(user,"a"), (user,"b"), (coach,"c")] commits (user,"ab") and leaves
\* (coach,"c") open.
C10_Witness ==
    /\ deltaLog = <<[speaker |-> "User", text |-> <<"a">>],
                    [speaker |-> "User", text |-> <<"b">>],
                    [speaker |-> "Coach", text |-> <<"c">>]>>
    /\ messages = <<[speaker |-> "User", text |-> <<"a", "b">>]>>
    /\ currentTranscript = <<[speaker |-> "Coach", text |-> <<"c">>]>>

\* C11: no utterance whose text is empty or whitespace-only is ever in the
\* committed history; committing an open utterance with blank text adds
\* nothing.
C11_NoBlankInHistory ==
    \A i \in 1..Len(messages) : ~Blank(messages[i].text)

\* [(user," "), (coach,"a")] commits nothing for the user.
C11_Witness ==
    /\ deltaLog = <<[speaker |-> "User", text |-> <<" ">>],
                    [speaker |-> "Coach", text |-> <<"a">>]>>
    /\ messages = <<>>
    /\ currentTranscript = <<[speaker |-> "Coach", text |-> <<"a">>]>>

\* C12: every aggregator step leaves the previous history as a prefix of
\* the new history (committed utterances are never modified, removed or
\* reordered); a step commits at most one utterance, namely the one that
\* was open, and the utterance open afterwards is a new one of the other
\* speaker that holds the new delta alone, so no open utterance is
\* committed twice and no committed one is re-opened.
C12_HistoryAppendOnly ==
    [][/\ Len(messages') \in {Len(messages), Len(messages) + 1}
       /\ SubSeq(messages', 1, Len(messages)) = messages
       /\ Len(messages') = Len(messages) + 1
          => /\ currentTranscript # <<>>
             /\ Last(messages') = currentTranscript[1]
             /\ currentTranscript'[1].speaker # currentTranscript[1].speaker
             /\ currentTranscript'[1].text = Last(deltaLog').text]_vars

\* Two utterances were committed one after the other and a third is open.
C12_Witness ==
    /\ Len(messages) = 2
    /\ messages[1] = [speaker |-> "User", text |-> <<"a", "b">>]
    /\ messages[2] = [speaker |-> "Coach", text |-> <<"c">>]
    /\ currentTranscript = <<[speaker |-> "User", text |-> <<"a">>]>>

(***************************************************************************)
(* Properties of the session lifecycle, checked under Spec.                *)
(***************************************************************************)
\* C1: whichever paths tear a session down (disconnect(), a close or an
\* error reported by the transport, a failure inside connect()), and also
\* when one of them triggers another, the onClose of its service is called
\* exactly once: never a second time, and once by the time the transport
\* has closed.
C1_OnCloseExactlyOnce ==
    \A s \in Sessions :
        /\ onCloseCount[s] <= 1
        /\ transport[s] = "closed" => onCloseCount[s] = 1

\* The history after the open utterance t has been committed under the
\* empty-text rule.
Flushed(history, t) ==
    IF t = <<>> THEN history
    ELSE IF Blank(t[1].text) THEN history
    ELSE Append(history, t[1])

\* C13: when the session ends with an utterance open, the utterance is
\* committed under the empty-text rule and the aggregator becomes idle:
\* at the step in which a close or an error reported by the transport, or
\* a failure of connect(), makes the session inactive, and at the step in
\* which handleEndSession completes.
C13_EndFlushesOpenUtterance ==
    [][(/\ currentTranscript # <<>>
        /\ \/ /\ sessionState.isActive
              /\ ~sessionState'.isActive
              /\ endPc' = "idle"
           \/ /\ endPc = "awaitDisconnect"
              /\ endPc' = "done")
       => /\ messages' = Flushed(messages, currentTranscript)
          /\ currentTranscript' = <<>>]_vars

\* C15: the audio-output context that the player acquired is released by
\* every teardown: at the end of a step that runs disconnect() or
\* completes handleEndSession, the player holds no running context.
C15_OutputContextReleased ==
    [][(\/ onCloseCount' # onCloseCount
        \/ endPc = "awaitDisconnect" /\ endPc' = "done")
       => audioContext' # "running"]_vars

\* C26: a downlink message delivered to a service after its disconnect()
\* has run changes nothing: no queueAudio call is made for it and the
\* transcript (history, open utterance, deltas received) stays as it was.
C26_NoMessageAfterDisconnect ==
    [][\A s \in Sessions :
          (onCloseCount[s] > 0 /\ received'[s] # received[s])
          => /\ calls' = calls
             /\ inflight' = inflight
             /\ UNCHANGED transcriptVars]_vars

(***************************************************************************)
(* Properties of a transport failure, checked under SpecFailure.           *)
(***************************************************************************)
\* The transport of service s has reported an error or a close.
TransportDown(s) == transport[s] \in {"failed", "closed"}

\* C23: when the transport of the service of the active session reports a
\* close or an error, the step that handles the report completes the
\* teardown: the service is disconnected, its capture handles are
\* released, the player is stopped (empty active set, isPlaying false),
\* the active and speaking flags are false and onClose has been called.
\* From then on the service stays disconnected with its handles released
\* and sends nothing, its transport stays down, and a transport is opened
\* only by a connect() that a new Start called: the session becomes active
\* again only by a new Start.
C23_TransportFailureTearsDown ==
    /\ [][\A s \in Sessions :
             (/\ sessionState.isActive /\ liveSessionRef = s
              /\ ~TransportDown(s) /\ TransportDown(s)')
             => /\ ~isConnected'[s]
                /\ activeSession'[s] = "null"
                /\ micTracks'[s] # "live" /\ inputCtx'[s] # "open"
                /\ procNode'[s] # "connected"
                /\ sources' = {} /\ ~isPlaying'
                /\ \A id \in sources : scheduled'[id].state = "stopped"
                /\ ~sessionState'.isActive /\ ~sessionState'.isSpeaking
                /\ onCloseCount'[s] = onCloseCount[s] + 1]_vars
    /\ [](\A s \in Sessions :
             TransportDown(s) =>
                 /\ ~isConnected[s]
                 /\ micTracks[s] # "live" /\ inputCtx[s] # "open"
                 /\ procNode[s] # "connected")
    /\ [][\A s \in Sessions :
             /\ TransportDown(s) => (TransportDown(s)' /\ sent'[s] = sent[s])
             /\ (transport[s] = "none" /\ transport'[s] # "none")
                => (s <= sessions /\ connectPc[s] = "awaitMic")]_vars
    /\ [][(~sessionState.isActive /\ sessionState'.isActive)
          => sessions' = sessions + 1]_vars

\* The transport of the first session reported an error while a source
\* was playing and the session was active: the source was stopped and the
\* handles were released.
C23_Witness ==
    /\ transport[1] = "failed"
    /\ sessions = 1
    /\ onCloseCount[1] = 1
    /\ Len(scheduled) = 1
    /\ scheduled[1].state = "stopped"
    /\ sources = {}
    /\ ~isPlaying
    /\ micTracks[1] = "stopped"
    /\ procNode[1] = "disconnected"
    /\ ~sessionState.isActive

(***************************************************************************)
(* Properties of the capture side, checked under SpecCapture.              *)
(***************************************************************************)
\* The sessions have quiesced: one was started, none is active, and no
\* step of connect(), of handleEndSession or of a transport is still to
\* come.
Quiesced ==
    /\ sessions > 0
    /\ ~sessionState.isActive
    /\ ~ENABLED Pending

\* C14: once the sessions have quiesced, whatever the interleaving of
\* connect(), disconnect(), close and error reports and capture callbacks,
\* no capture-side handle of any service is left unreleased: the
\* microphone tracks are not live, the input audio context is not open,
\* the processor is not connected.
C14_NoCaptureHandleLeft ==
    Quiesced =>
        \A s \in Sessions :
            /\ micTracks[s] # "live"
            /\ inputCtx[s] # "open"
            /\ procNode[s] # "connected"

\* The user ended the first session while connect() was still waiting,
\* before a processor was installed; the microphone was granted all the
\* same and the transport was closed.  The second session ran with its
\* processor installed until its transport closed.  Both have quiesced.
C14_Witness ==
    /\ Quiesced
    /\ procNode[1] = "none"
    /\ micTracks[1] = "stopped"
    /\ inputCtx[1] = "closed"
    /\ transport[1] = "closed"
    /\ onCloseCount[1] = 2
    /\ procNode[2] = "disconnected"
    /\ micTracks[2] = "stopped"
    /\ inputCtx[2] = "closed"
    /\ transport[2] = "closed"

\* C17: a capture callback of a service that runs after its disconnect()
\* has been called returns at the guard: it hands no frame to the
\* transport and does not come to the volume update.
C17_NoCaptureAfterDisconnect ==
    [][\A s \in Sessions :
          (onCloseCount[s] > 0 /\ blocks'[s] # blocks[s])
          => /\ sent'[s] = sent[s]
             /\ sendErrors'[s] = sendErrors[s]
             /\ volumeUpdates'[s] = volumeUpdates[s]
             /\ volumeErrors'[s] = volumeErrors[s]]_vars

\* The first block came while the service was connected and reached the
\* volume update; the second was delivered after disconnect() and went
\* nowhere.
C17_Witness ==
    /\ onCloseCount[1] > 0
    /\ procNode[1] = "disconnected"
    /\ blocks[1] = 2
    /\ volumeErrors[1] = 1
    /\ sent[1] = <<>>

\* C18: the frames handed to the transport are captured blocks, each at
\* most once and in capture order; a captured block is handed over unless
\* its send threw or the callback found the session not connected.
C18_UplinkInCaptureOrder ==
    /\ [](\A s \in Sessions :
             /\ \A i \in 1..Len(sent[s]) : sent[s][i] \in 1..blocks[s]
             /\ \A i, j \in 1..Len(sent[s]) : i < j => sent[s][i] < sent[s][j])
    /\ [][\A s \in Sessions :
             blocks'[s] # blocks[s]
             => sent'[s] = IF /\ isConnected[s]
                              /\ activeSession[s] # "null"
                              /\ sendErrors'[s] = sendErrors[s]
                           THEN Append(sent[s], blocks'[s])
                           ELSE sent[s]]_vars

\* connect() of service s is over and no microphone was ever granted:
\* getUserMedia was rejected.
MicFailed(s) == connectPc[s] = "done" /\ micTracks[s] = "none"

\* The failure of connect() of service s reached its caller: the promise
\* that handleStartSession awaits was rejected.
SurfacedToCaller(s) == connectPc[s] = "rejected"

\* C21: when the microphone cannot be acquired, the session fails before
\* the pipeline starts: the transport is never opened, no capture callback
\* is installed and none runs, no frame is sent, the input audio context
\* acquired before is closed, connect() does not try again, and the
\* failure is surfaced to the caller: connect() fails towards
\* handleStartSession, beyond the onClose that every teardown calls.
C21_MicFailureFailsSession ==
    /\ [](\A s \in Sessions :
             MicFailed(s) =>
                 /\ transport[s] = "none"
                 /\ activeSession[s] = "null"
                 /\ processor[s] = "null" /\ procNode[s] = "none"
                 /\ blocks[s] = 0 /\ sent[s] = <<>>
                 /\ volumeUpdates[s] = 0 /\ volumeErrors[s] = 0
                 /\ stream[s] = "null"
                 /\ inputAudioContext[s] = "null" /\ inputCtx[s] = "closed"
                 /\ ~isConnected[s]
                 /\ onCloseCount[s] >= 1)
    /\ [][\A s \in Sessions :
             /\ MicFailed(s) => MicFailed(s)'
             /\ (connectPc[s] = "awaitMic" /\ micTracks'[s] = "none"
                                            /\ connectPc'[s] # "awaitMic")
                => /\ onCloseCount'[s] = onCloseCount[s] + 1
                   /\ ~sessionState'.isActive
                   /\ SurfacedToCaller(s)']_vars

\* C22: when the microphone's track ends while the session is connected
\* and its capture pipeline is running, the full teardown runs and is
\* surfaced through onClose, and no frame is handed to the transport after
\* the track has ended.
C22_TrackEndTearsDown ==
    [][\A s \in Sessions :
          /\ (/\ isConnected[s]
              /\ procNode[s] = "connected"
              /\ micTracks[s] = "live"
              /\ micTracks'[s] = "ended")
             => /\ onCloseCount'[s] = onCloseCount[s] + 1
                /\ ~isConnected'[s]
                /\ ~sessionState'.isActive
          /\ (micTracks[s] = "ended" /\ blocks'[s] # blocks[s])
             => sent'[s] = sent[s]]_vars

\* C27: when disconnect() has been called before the transport open
\* completes, the completion closes the transport and starts no pipeline;
\* a processor is installed only in a service on which disconnect() was
\* never called, and without a processor no capture callback runs and no
\* frame is sent.
C27_EarlyDisconnectStartsNoPipeline ==
    /\ [][\A s \in Sessions :
             /\ (onCloseCount[s] > 0 /\ activeSession[s] = "null"
                                     /\ activeSession'[s] = "session")
                => /\ transport'[s] = "closing"
                   /\ processor'[s] = "null" /\ procNode'[s] = "none"
                   /\ connectPc'[s] = "done"
             /\ (procNode[s] = "none" /\ procNode'[s] # "none")
                => (onCloseCount[s] = 0 /\ isConnected[s])]_vars
    /\ [](\A s \in Sessions :
             procNode[s] = "none"
             => /\ blocks[s] = 0 /\ sent[s] = <<>>
                /\ volumeUpdates[s] = 0 /\ volumeErrors[s] = 0)

\* The user ended the first session while connect() was waiting for the
\* microphone; the microphone was granted and the transport opened all the
\* same, and was closed at once with no processor installed.
C27_Witness ==
    /\ onCloseCount[1] = 1
    /\ ~isConnected[1]
    /\ connectPc[1] = "done"
    /\ activeSession[1] = "session"
    /\ transport[1] = "closing"
    /\ micTracks[1] = "live"
    /\ inputCtx[1] = "closed"
    /\ procNode[1] = "none"
    /\ sent[1] = <<>>

(***************************************************************************)
(* Properties of the sample codec, checked under SpecCodec.                *)
(***************************************************************************)
\* C24: for every sample in [-1, 1], decoding its 16-bit quantization
\* gives a value within one quantization step (1/32768) of the sample.
C24_RoundTripWithinOneLsb ==
    (decoded # <<>> /\ Abs(sample) <= SampleOne)
    => Abs(sample - decoded[1]) <= SubLsbSteps

=============================================================================
